---- MODULE Spec2Model ----
(***************************************************************************)
(* A model of the boardgame.io client (src/src/client/client.js): the      *)
(* action dispatchers, the three middlewares of the store, the view        *)
(* projection getState, the subscription callback and its handles, the     *)
(* identity updates, the bot's step and the module-level local master slot.*)
(*                                                                         *)
(* The reducer, the action creators and the transports live in other       *)
(* files of the repository (core/reducer, core/action-creators and the     *)
(* transports); the parts of them the client depends on are modelled       *)
(* from the specification and are marked as such in the model map.         *)
(***************************************************************************)
EXTENDS Integers, Sequences, FiniteSets, TLC

VARIABLES
    multiplayer,    \* this.multiplayer: the multiplayer option as given
    playerID,       \* this.playerID
    dispPlayerID,   \* the playerID captured by this.moves / this.events
    credentials,    \* this.credentials
    dispCredentials, \* the credentials captured by this.moves / this.events
    gameID,         \* this.gameID
    ai,             \* whether the ai option was given
    subscribeCallback, \* this.subscribeCallback: the listeners it invokes, in order
    handles,        \* the unsubscribe handles returned so far: what each closes over
    isConnected,    \* this.transport.isConnected
    botPc,          \* where the pending step() is: "idle" or "awaiting" bot.play
    botRead,        \* the state that the latest step() read before awaiting
    lastCall,       \* the operation most recently invoked
    trace,          \* what that operation did, in order
    state,          \* this.store.getState()
    log,            \* this.log
    lastAction,     \* the action most recently handed to store.dispatch
    thrown,         \* whether the most recent call ended in an exception
    lastPair,       \* history: how the last dispatched action relates to the one before
    localMaster_,   \* the module-level local master slot
    clients,        \* the clients constructed so far in this process
    masters         \* the number of LocalMaster instances created so far

vars == <<multiplayer, playerID, dispPlayerID, credentials, dispCredentials, gameID,
          ai, subscribeCallback, handles, isConnected, botPc, botRead, lastCall,
          trace, state, log, lastAction, thrown, lastPair, localMaster_, clients,
          masters>>

\* the identity of the client and what its dispatchers captured of it
identityVars == <<playerID, dispPlayerID, credentials, dispCredentials, gameID>>

\* the subscription chain and the handles on it
subscriptionVars == <<subscribeCallback, handles>>

\* the pending step() of the bot
botVars == <<botPc, botRead>>

processVars == <<localMaster_, clients, masters>>

----------------------------------------------------------------------------
(* Bounds of the model.                                                    *)

\* the largest _stateID a store state may carry
MaxStateID == 2
\* the longest client log that is explored
MaxLog == 2
\* the longest deltalog an UPDATE may carry
MaxDelta == 2
\* the number of client constructions explored for the local master slot
MaxClients == 3

----------------------------------------------------------------------------
(* Values.                                                                 *)

Null == "null"
Undefined == "undefined"

\* the participants of the game (numPlayers = 2)
Players == {"0", "1"}
\* the values the playerID option takes
PlayerIDs == Players \cup {Null, Undefined}

\* The multiplayer option: undefined, true, { local: true },
\* { server: address }, { transport: impl }, an object with none of these
\* keys, false (defined but falsy) and null.
MultiplayerSpecs ==
    {"undefined", "true", "local", "server", "transport", "invalid", "false", "null"}

\* JavaScript truthiness of the multiplayer option.
Truthy(m) == m \notin {"undefined", "false", "null"}

\* the multiplayer options of the client whose dispatches are explored
ClientSpecs == {"undefined", "local", "invalid", "false"}

\* The configurations for which the constructor installs a transport that
\* can deliver the authority's pushes.
HasTransport(m) == m \in {"true", "local", "server", "transport"}

\* the game definitions passed to Client() in one process
Games == {"g1", "g2", "g3"}

\* the values the credentials option and updateCredentials() take
Credentials == {Undefined, "c1", "c2"}
\* the values the gameID option and updateGameID() take
GameIDs == {Undefined, "default", "room"}
\* the functions passed to subscribe()
Listeners == {"A", "B"}

StateIDs == 0..MaxStateID

\* A log entry; the client reads nothing of it but _stateID.
Entry(id) == [_stateID |-> id]

\* The strictly increasing sequence of the entries whose ids are in S.
RECURSIVE Ascending(_)
Ascending(S) ==
    IF S = {} THEN <<>>
    ELSE LET m == CHOOSE x \in S : \A y \in S : x <= y
         IN <<Entry(m)>> \o Ascending(S \ {m})

\* An optional array-valued field of an action (action.deltalog, action.log).
Absent == [present |-> FALSE, v |-> <<>>]
Present(s) == [present |-> TRUE, v |-> s]

\* x || []
OrEmpty(x) == IF x.present THEN x.v ELSE <<>>

\* ctx, as far as the client inspects it
Ctxs == [currentPlayer : Players, gameover : BOOLEAN]

\* store state before the first sync of a multiplayer client
NullState ==
    [isNull |-> TRUE, _stateID |-> 0,
     ctx |-> [currentPlayer |-> "0", gameover |-> FALSE],
     deltalog |-> <<>>]

MkState(id, ctx, deltalog) ==
    [isNull |-> FALSE, _stateID |-> id, ctx |-> ctx, deltalog |-> deltalog]

\* InitializeGame({ game, numPlayers })
InitializeGame ==
    MkState(0, [currentPlayer |-> "0", gameover |-> FALSE], <<>>)

\* let initialState = null; if (multiplayer === undefined) initialState = InitializeGame(...)
InitialState(m) == IF m = "undefined" THEN InitializeGame ELSE NullState

----------------------------------------------------------------------------
(* Actions of the store (core/action-creators).                            *)

ActionTypes == {"MAKE_MOVE", "GAME_EVENT", "RESET", "UNDO", "REDO", "SYNC", "UPDATE"}

\* reset, sync and update are created with clientOnly: true
MkAction(type, pid, st, deltalog, lg) ==
    [type |-> type, playerID |-> pid, state |-> st, deltalog |-> deltalog, log |-> lg,
     credentials |-> Undefined, clientOnly |-> type \in {"RESET", "SYNC", "UPDATE"}]

\* no action dispatched yet
NoAction == MkAction("NONE", Undefined, NullState, Absent, Absent)

\* ActionCreators.makeMove / ActionCreators.gameEvent (name, args, playerID, credentials)
PlayerAction(type, pid) == MkAction(type, pid, NullState, Absent, Absent)
\* the same, with the credentials argument
CredentialedAction(type, pid, cred) ==
    [PlayerAction(type, pid) EXCEPT !.credentials = cred]
\* ActionCreators.reset(state)
ResetAction(st) == MkAction("RESET", Undefined, st, Absent, Absent)
\* ActionCreators.undo() / ActionCreators.redo()
HistoryAction(type) == MkAction(type, Undefined, NullState, Absent, Absent)
\* ActionCreators.update(state, deltalog)
UpdateAction(st, deltalog) == MkAction("UPDATE", Undefined, st, deltalog, Absent)
\* ActionCreators.sync(state, log)
SyncAction(st, lg) == MkAction("SYNC", Undefined, st, Absent, lg)

----------------------------------------------------------------------------
(* The reducer (core/reducer): the set of states it may return.            *)

\* A move or event on an initialized state: either it is refused and the
\* state is kept with an empty deltalog, or it is applied: one log entry
\* tagged with the state's _stateID, the _stateID incremented, a new ctx.
ApplyMove(st) ==
    {[st EXCEPT !.deltalog = <<>>]} \cup
    (IF st._stateID < MaxStateID
     THEN {MkState(st._stateID + 1, c, <<Entry(st._stateID)>>) : c \in Ctxs}
     ELSE {})

\* UNDO / REDO restore an earlier or later G and ctx; nothing is logged.
ApplyHistory(st) == {[st EXCEPT !.ctx = c] : c \in Ctxs}

\* Whether the reducer, or the middleware reading its result, throws.
ReducerThrows(st, action) ==
    st.isNull /\ action.type \in {"MAKE_MOVE", "GAME_EVENT", "UNDO", "REDO"}

Reducer(st, action) ==
    CASE action.type \in {"MAKE_MOVE", "GAME_EVENT"} -> ApplyMove(st)
      [] action.type \in {"UNDO", "REDO"} -> ApplyHistory(st)
      [] action.type \in {"RESET", "SYNC", "UPDATE"} -> {action.state}
      [] OTHER -> {st}

----------------------------------------------------------------------------
(* LogMiddleware: this.log after the action, given the state the reducer   *)
(* produced.                                                               *)

\* mutant: the id is never read from the log
LastStateID_Unread(lg) == -1

LastStateID(lg) == IF Len(lg) > 0 THEN lg[Len(lg)]._stateID ELSE -1

\* mutant: the deltalog is appended unfiltered
FilterNewer_All(deltalog, id) == deltalog

\* mutant: >= in place of >
FilterNewer_AtLeast(deltalog, id) == SelectSeq(deltalog, LAMBDA l : l._stateID >= id)

\* deltalog.filter(l => l._stateID > id)
FilterNewer(deltalog, id) == SelectSeq(deltalog, LAMBDA l : l._stateID > id)

\* mutant: RESET is not handled
LogMiddleware_NoReset(action, st, lg) ==
    CASE action.type \in {"MAKE_MOVE", "GAME_EVENT"} -> lg \o st.deltalog
      [] action.type = "UPDATE" ->
            lg \o FilterNewer(OrEmpty(action.deltalog), LastStateID(lg))
      [] action.type = "SYNC" -> OrEmpty(action.log)
      [] OTHER -> lg

\* mutant: SYNC appends the authority's log to the client's
LogMiddleware_SyncAppends(action, st, lg) ==
    CASE action.type \in {"MAKE_MOVE", "GAME_EVENT"} -> lg \o st.deltalog
      [] action.type = "RESET" -> <<>>
      [] action.type = "UPDATE" ->
            lg \o FilterNewer(OrEmpty(action.deltalog), LastStateID(lg))
      [] action.type = "SYNC" -> lg \o OrEmpty(action.log)
      [] OTHER -> lg

LogMiddleware(action, st, lg) ==
    CASE action.type \in {"MAKE_MOVE", "GAME_EVENT"} -> lg \o st.deltalog
      [] action.type = "RESET" -> <<>>
      [] action.type = "UPDATE" ->
            lg \o FilterNewer(OrEmpty(action.deltalog), LastStateID(lg))
      [] action.type = "SYNC" -> OrEmpty(action.log)
      [] OTHER -> lg

----------------------------------------------------------------------------
(* createDispatchers: the playerID the dispatched action carries.          *)

\* mutant: currentPlayer is read once, from the initial state
AssumedPlayerID_Cached(mp, pid, st) ==
    IF ~Truthy(mp) /\ (pid = Null \/ pid = Undefined)
    THEN InitializeGame.ctx.currentPlayer
    ELSE pid

AssumedPlayerID(mp, pid, st) ==
    IF ~Truthy(mp) /\ (pid = Null \/ pid = Undefined)
    THEN st.ctx.currentPlayer
    ELSE pid

\* state.ctx of a null state: a TypeError
DispatcherThrows(mp, pid, st) ==
    ~Truthy(mp) /\ (pid = Null \/ pid = Undefined) /\ st.isNull

----------------------------------------------------------------------------
(* getState: the view of the client.                                       *)

\* game.flow.isPlayerActive(G, ctx, playerID)
IsPlayerActive(ctx, pid) == pid = ctx.currentPlayer

\* mutant: ctx.gameover is not consulted
IsActive_NoGameover(mp, pid, st) ==
    LET isPlayerActive == IsPlayerActive(st.ctx, pid)
        a1 == IF Truthy(mp) /\ ~isPlayerActive THEN FALSE ELSE TRUE
    IN IF ~Truthy(mp) /\ pid # Null /\ pid # Undefined /\ ~isPlayerActive
       THEN FALSE ELSE a1

\* mutant: the single-player branch does not test the playerID for undefined
IsActive_NoUndefinedTest(mp, pid, st) ==
    LET isPlayerActive == IsPlayerActive(st.ctx, pid)
        a1 == IF Truthy(mp) /\ ~isPlayerActive THEN FALSE ELSE TRUE
        a2 == IF ~Truthy(mp) /\ pid # Null /\ ~isPlayerActive THEN FALSE ELSE a1
    IN IF st.ctx.gameover THEN FALSE ELSE a2

IsActive(mp, pid, st) ==
    LET isPlayerActive == IsPlayerActive(st.ctx, pid)
        a1 == IF Truthy(mp) /\ ~isPlayerActive THEN FALSE ELSE TRUE
        a2 == IF ~Truthy(mp) /\ pid # Null /\ pid # Undefined /\ ~isPlayerActive
              THEN FALSE ELSE a1
    IN IF st.ctx.gameover THEN FALSE ELSE a2

\* the value getState() returns for null
NullView ==
    [isNull |-> TRUE, isActive |-> FALSE, log |-> <<>>, ctx |-> NullState.ctx,
     _stateID |-> 0, isConnected |-> FALSE]

\* mutant: a snapshot is built of a null store state
GetStateOf_NoNullTest(st, lg, conn) ==
    [isNull |-> FALSE, isActive |-> IsActive(multiplayer, playerID, st),
     log |-> lg, ctx |-> st.ctx, _stateID |-> st._stateID, isConnected |-> conn]

\* getState() with the store state st, this.log lg and the transport's flag
\* conn: null before the first sync, else the state with isActive, the
\* client's log and the transport's isConnected
GetStateOf(st, lg, conn) ==
    IF st.isNull
    THEN NullView
    ELSE [isNull |-> FALSE, isActive |-> IsActive(multiplayer, playerID, st),
          log |-> lg, ctx |-> st.ctx, _stateID |-> st._stateID,
          isConnected |-> conn]

\* getState()
GetState == GetStateOf(state, log, isConnected)

----------------------------------------------------------------------------
(* The constructor.                                                        *)

\* let localMaster_ = null
NoMaster == [config |-> "none", id |-> 0]

\* The local master slot after a construction with { local: true } against
\* `game`, `n` masters having been created before.
NextLocalMaster(lm, game, n) ==
    IF lm = NoMaster \/ lm.config # game
    THEN [config |-> game, id |-> n + 1]
    ELSE lm

\* multiplayer.local of null: a TypeError
ConstructorThrows(m) == m = "null"

\* The operation invoked on the client: its name, its argument, and for an
\* unsubscribe handle the subscribe call that returned it.
Call(op, arg, n) == [op |-> op, arg |-> arg, n |-> n]

\* One thing an operation did: a stage of the store's pipeline that ran, a
\* call on the transport, a listener that was invoked, an error that was
\* logged, a subscription callback that was replaced.
Event(ev, arg) ==
    [ev |-> ev, arg |-> arg, action |-> NoAction, state |-> NullState,
     log |-> <<>>, chain |-> <<>>, seen |-> NullView]

\* error('invalid multiplayer spec')
InvalidSpecError == Event("error", "invalid multiplayer spec")

\* What the else branch of the transport selection logs.
ConstructorErrors(m) ==
    IF m # "undefined" /\ ~HasTransport(m) THEN <<InvalidSpecError>> ELSE <<>>

\* new _ClientImpl({ game, multiplayer: m, playerID: pid })
Construct(game, m, pid) ==
    /\ Len(clients) < MaxClients
    /\ lastCall' = Call("Client", m, 0)
    /\ IF ConstructorThrows(m)
       THEN /\ thrown' = TRUE
            /\ trace' = <<>>
            /\ UNCHANGED <<multiplayer, identityVars, ai, subscriptionVars, isConnected,
                           botVars, state, log, lastAction, lastPair, processVars>>
       ELSE /\ multiplayer' = m
            /\ lastPair' = "other"
            /\ playerID' = pid
            /\ dispPlayerID' = pid
            /\ credentials' = Undefined
            /\ dispCredentials' = Undefined
            /\ gameID' = Undefined
            /\ ai' = FALSE
            /\ subscribeCallback' = <<>>
            /\ handles' = <<>>
            /\ isConnected' = ~HasTransport(m)
            /\ botPc' = "idle"
            /\ botRead' = NullState
            /\ trace' = ConstructorErrors(m)
            /\ state' = InitialState(m)
            /\ log' = <<>>
            /\ lastAction' = NoAction
            /\ thrown' = FALSE
            /\ IF m = "local"
               THEN /\ localMaster_' = NextLocalMaster(localMaster_, game, masters)
                    /\ masters' = IF localMaster_' = localMaster_ THEN masters ELSE masters + 1
                    /\ clients' = Append(clients, [game |-> game, master |-> localMaster_'.id])
               ELSE /\ clients' = Append(clients, [game |-> game, master |-> 0])
                    /\ UNCHANGED <<localMaster_, masters>>

\* Client(opts)
Client == \E game \in Games, m \in MultiplayerSpecs, pid \in PlayerIDs : Construct(game, m, pid)

----------------------------------------------------------------------------
(* The subscription chain.                                                 *)

\* mutant: the new function runs before the earlier callback
NewCallback_FnFirst(prev, fn) == <<fn>> \o prev

\* mutant: the new function replaces the earlier callback
NewCallback_Alone(prev, fn) == <<fn>>

\* callback = () => { prev(); fn(this.getState()); }, as the listeners it
\* invokes, in order
NewCallback(prev, fn) == Append(prev, fn)

\* mutant: the handle clears the subscription
Unsubscribed_Clears(current, prev, fn) == <<>>

\* mutant: the handle removes its own function from the current callback
Unsubscribed_RemovesFn(current, prev, fn) == SelectSeq(current, LAMBDA l : l # fn)

\* this.subscribeCallback = prev, in the handle that subscribe(fn) returned
Unsubscribed(current, prev, fn) == prev

\* Invoking a callback: each of its listeners is called with getState().
Invoke(callback, st, lg) ==
    [i \in 1..Len(callback) |->
        [Event("listener", callback[i]) EXCEPT !.seen = GetStateOf(st, lg, isConnected)]]

----------------------------------------------------------------------------
(* store.dispatch(action): the reducer inside LogMiddleware inside         *)
(* TransportMiddleware inside SubscriptionMiddleware.                      *)

\* History: the last two dispatches are the same UPDATE ("redelivery"); a
\* move or event that logged its deltalog, then an UPDATE carrying that same
\* deltalog ("echo"); a RESET, then a MAKE_MOVE ("first-move").
Relation(prev, prevThrown, st, action) ==
    CASE action.type = "UPDATE" /\ prev = action -> "redelivery"
      [] /\ action.type = "UPDATE"
         /\ prev.type \in {"MAKE_MOVE", "GAME_EVENT"}
         /\ ~prevThrown
         /\ st.deltalog # <<>>
         /\ OrEmpty(action.deltalog) = st.deltalog -> "echo"
      [] action.type = "MAKE_MOVE" /\ prev.type = "RESET" -> "first-move"
      [] OTHER -> "other"

\* The store's own dispatch: the reducer's result st becomes the store state.
\* A run of the pipeline is the store state, this.log and what was done so far.
StoreDispatch(action, st) ==
    [state |-> st, log |-> log,
     trace |-> <<Event("reducer", action.type)>>]

\* LogMiddleware, after next(action)
AfterLog(r, action) ==
    LET lg == LogMiddleware(action, r.state, r.log)
    IN [r EXCEPT !.log = lg,
                 !.trace = Append(@, Event("log", action.type))]

\* mutant: the transport is handed the state after the reducer
AfterTransport_NewState(r, baseState, action) ==
    IF action.clientOnly # TRUE
    THEN [r EXCEPT !.trace = Append(@, [Event("transport.onAction", action.type) EXCEPT
                                            !.state = r.state, !.action = action,
                                            !.log = r.log])]
    ELSE r

\* TransportMiddleware, after next(action): baseState was read before it
AfterTransport(r, baseState, action) ==
    IF action.clientOnly # TRUE
    THEN [r EXCEPT !.trace = Append(@, [Event("transport.onAction", action.type) EXCEPT
                                            !.state = baseState, !.action = action,
                                            !.log = r.log])]
    ELSE r

\* SubscriptionMiddleware, after next(action): this.subscribeCallback()
AfterSubscription(r) ==
    [r EXCEPT !.trace = @ \o Invoke(subscribeCallback, r.state, r.log)]

\* mutant: applyMiddleware(SubscriptionMiddleware, LogMiddleware, TransportMiddleware)
ApplyMiddleware_TransportInnermost(action, st) ==
    AfterSubscription(AfterLog(AfterTransport(StoreDispatch(action, st), state, action),
                               action))

\* applyMiddleware(SubscriptionMiddleware, TransportMiddleware, LogMiddleware):
\* the first wraps the second wraps the third wraps the store's dispatch
ApplyMiddleware(action, st) ==
    AfterSubscription(AfterTransport(AfterLog(StoreDispatch(action, st), action),
                                     state, action))

\* this.store.dispatch(action)
Dispatch(action) ==
    /\ lastAction' = action
    /\ lastPair' = Relation(lastAction, thrown, state, action)
    /\ IF ReducerThrows(state, action)
       THEN /\ thrown' = TRUE
            /\ trace' = <<>>
            /\ UNCHANGED <<state, log>>
       ELSE \E st \in Reducer(state, action) :
               LET r == ApplyMiddleware(action, st)
               IN /\ Len(r.log) <= MaxLog
                  /\ state' = r.state
                  /\ log' = r.log
                  /\ trace' = r.trace
                  /\ thrown' = FALSE
    /\ UNCHANGED <<multiplayer, identityVars, ai, subscriptionVars, isConnected,
                   processVars>>

\* this.moves[name](...args) and this.events[name](...args)
CallDispatcher(op, type) ==
    /\ lastCall' = Call(op, "", 0)
    /\ UNCHANGED botVars
    /\ IF DispatcherThrows(multiplayer, dispPlayerID, state)
       THEN /\ thrown' = TRUE
            /\ trace' = <<>>
            /\ UNCHANGED <<multiplayer, identityVars, ai, subscriptionVars, isConnected,
                           state, log, lastAction, lastPair, processVars>>
       ELSE Dispatch(CredentialedAction(type,
                                        AssumedPlayerID(multiplayer, dispPlayerID, state),
                                        dispCredentials))

MakeMove == CallDispatcher("moves", "MAKE_MOVE")
GameEvent == CallDispatcher("events", "GAME_EVENT")

\* this.reset()
Reset ==
    /\ lastCall' = Call("reset", "", 0)
    /\ UNCHANGED botVars
    /\ Dispatch(ResetAction(InitialState(multiplayer)))
\* this.undo()
Undo ==
    /\ lastCall' = Call("undo", "", 0)
    /\ UNCHANGED botVars
    /\ Dispatch(HistoryAction("UNDO"))
\* this.redo()
Redo ==
    /\ lastCall' = Call("redo", "", 0)
    /\ UNCHANGED botVars
    /\ Dispatch(HistoryAction("REDO"))

----------------------------------------------------------------------------
(* The authority's pushes, dispatched by the transport.                    *)

AuthorityStates == {MkState(id, c, <<>>) : id \in StateIDs, c \in Ctxs}

\* The states an UPDATE may carry: the authority has applied an action.
UpdatedStates == {st \in AuthorityStates : st._stateID >= 1}

\* The entries with the _stateIDs lo..hi, in order.
Run(lo, hi) == Ascending({i \in lo..hi : i >= 0})

\* update(state, deltalog): the entries the authority's last actions produced,
\* which end just below the _stateID its state has reached.
UpdateActions ==
    {UpdateAction(st, Absent) : st \in UpdatedStates} \cup
    {UpdateAction(st, Present(Run(st._stateID - n, st._stateID - 1))) :
        st \in UpdatedStates, n \in 0..MaxDelta}

\* sync(state, log): the authority's whole log.
SyncActions ==
    {SyncAction(st, Absent) : st \in AuthorityStates} \cup
    {SyncAction(st, Present(Run(0, st._stateID - 1))) : st \in AuthorityStates}

\* The transport dispatches an UPDATE it received over its channel.
ReceiveUpdate ==
    /\ HasTransport(multiplayer)
    /\ isConnected
    /\ lastCall' = Call("transport", "update", 0)
    /\ UNCHANGED botVars
    /\ \E a \in UpdateActions : Dispatch(a)

\* The transport dispatches a SYNC it received over its channel.
ReceiveSync ==
    /\ HasTransport(multiplayer)
    /\ isConnected
    /\ lastCall' = Call("transport", "sync", 0)
    /\ UNCHANGED botVars
    /\ \E a \in SyncActions : Dispatch(a)

----------------------------------------------------------------------------
(* The other operations of the client.                                     *)

\* the number of subscribe() calls explored
MaxSubs == 2

\* What an operation that dispatches nothing leaves alone.
NoDispatch == UNCHANGED <<state, log, lastAction, lastPair>>

\* subscribe(fn)
Subscribe(fn) ==
    LET prev == subscribeCallback
        callback == NewCallback(prev, fn)
    IN /\ Len(handles) < MaxSubs
       /\ lastCall' = Call("subscribe", fn, Len(handles) + 1)
       /\ subscribeCallback' = callback
       /\ trace' = <<[Event("transport.subscribe", "") EXCEPT !.chain = callback]>>
                   \o Invoke(callback, state, log)
       /\ handles' = Append(handles, [prev |-> prev, fn |-> fn])
       /\ thrown' = FALSE
       /\ NoDispatch
       /\ UNCHANGED <<multiplayer, identityVars, ai, isConnected, botVars, processVars>>

\* The handle that the n-th subscribe() returned: () => { this.subscribeCallback = prev; }
Unsubscribe(n) ==
    /\ n \in 1..Len(handles)
    /\ lastCall' = Call("unsubscribe", "", n)
    /\ subscribeCallback' = Unsubscribed(subscribeCallback, handles[n].prev, handles[n].fn)
    /\ trace' = <<[Event("replaced", "") EXCEPT !.chain = subscribeCallback]>>
    /\ thrown' = FALSE
    /\ NoDispatch
    /\ UNCHANGED <<multiplayer, identityVars, ai, handles, isConnected, botVars,
                   processVars>>

\* connect(), on a client whose transport has no channel yet: the transport
\* establishes it. (The default transport is connected from the start.)
Connect ==
    /\ ~isConnected
    /\ lastCall' = Call("connect", "", 0)
    /\ trace' = <<Event("transport.connect", "")>>
    /\ isConnected' = TRUE
    /\ thrown' = FALSE
    /\ NoDispatch
    /\ UNCHANGED <<multiplayer, identityVars, ai, subscriptionVars, botVars, processVars>>

\* updatePlayerID(pid)
UpdatePlayerID(pid) ==
    /\ lastCall' = Call("updatePlayerID", pid, 0)
    /\ playerID' = pid
    /\ dispPlayerID' = playerID'
    /\ dispCredentials' = credentials
    /\ trace' = <<Event("transport.updatePlayerID", pid)>>
    /\ thrown' = FALSE
    /\ NoDispatch
    /\ UNCHANGED <<multiplayer, credentials, gameID, ai, subscriptionVars, isConnected,
                   botVars, processVars>>

\* updateGameID(gid)
UpdateGameID(gid) ==
    /\ lastCall' = Call("updateGameID", gid, 0)
    /\ gameID' = gid
    /\ dispPlayerID' = playerID
    /\ dispCredentials' = credentials
    /\ trace' = <<Event("transport.updateGameID", gid)>>
    /\ thrown' = FALSE
    /\ NoDispatch
    /\ UNCHANGED <<multiplayer, playerID, credentials, ai, subscriptionVars, isConnected,
                   botVars, processVars>>

\* updateCredentials(cred)
UpdateCredentials(cred) ==
    /\ lastCall' = Call("updateCredentials", cred, 0)
    /\ credentials' = cred
    /\ dispPlayerID' = playerID
    /\ dispCredentials' = credentials'
    /\ trace' = <<>>
    /\ thrown' = FALSE
    /\ NoDispatch
    /\ UNCHANGED <<multiplayer, playerID, gameID, ai, subscriptionVars, isConnected,
                   botVars, processVars>>

----------------------------------------------------------------------------
(* step(): one action of the bot.                                          *)

\* step exists if (ai !== undefined && multiplayer === undefined)
HasStep == ai /\ multiplayer = "undefined"

\* let playerID = state.ctx.currentPlayer (the states explored carry no
\* ctx.activePlayers)
BotPlayerID(st) == st.ctx.currentPlayer

\* What bot.play(state, playerID) resolves to: no action, or a move or an
\* event of the player it was asked to play.
NoPlay == [present |-> FALSE, action |-> NoAction]
BotPlays(st) ==
    {NoPlay} \cup
    {[present |-> TRUE, action |-> PlayerAction(type, BotPlayerID(st))] :
        type \in {"MAKE_MOVE", "GAME_EVENT"}}

\* mutant: the awaited action is not dispatched
StepDispatches_Never(played) == FALSE

\* if (action)
StepDispatches(played) == played.present

\* step(), up to the await: const state = this.store.getState()
StepRead ==
    /\ HasStep
    /\ botPc = "idle"
    /\ lastCall' = Call("step", "read", 0)
    /\ botPc' = "awaiting"
    /\ botRead' = state
    /\ trace' = <<>>
    /\ thrown' = FALSE
    /\ NoDispatch
    /\ UNCHANGED <<multiplayer, identityVars, ai, subscriptionVars, isConnected,
                   processVars>>

\* step(), from the await on: bot.play has resolved
StepResume ==
    /\ botPc = "awaiting"
    /\ botPc' = "idle"
    /\ UNCHANGED botRead
    /\ \E played \in BotPlays(botRead) :
          /\ lastCall' = Call("step", played.action.type, 0)
          /\ IF StepDispatches(played)
             THEN Dispatch(played.action)
             ELSE /\ trace' = <<>>
                  /\ thrown' = FALSE
                  /\ NoDispatch
                  /\ UNCHANGED <<multiplayer, identityVars, ai, subscriptionVars,
                                 isConnected, processVars>>

----------------------------------------------------------------------------
(* Specifications.                                                         *)

\* Nothing constructed yet.
ProcessInit ==
    /\ multiplayer = "undefined"
    /\ playerID = Undefined
    /\ dispPlayerID = Undefined
    /\ credentials = Undefined
    /\ dispCredentials = Undefined
    /\ gameID = Undefined
    /\ ai = FALSE
    /\ subscribeCallback = <<>>
    /\ handles = <<>>
    /\ isConnected = FALSE
    /\ botPc = "idle"
    /\ botRead = NullState
    /\ lastCall = Call("none", "", 0)
    /\ trace = <<>>
    /\ state = NullState
    /\ log = <<>>
    /\ lastAction = NoAction
    /\ thrown = FALSE
    /\ lastPair = "other"
    /\ localMaster_ = NoMaster
    /\ clients = <<>>
    /\ masters = 0

\* One client, as new _ClientImpl({ game, ai, multiplayer: m, playerID: pid })
\* leaves it.
Constructed(m, pid, aiOpt) ==
    /\ multiplayer = m
    /\ playerID = pid
    /\ dispPlayerID = pid
    /\ credentials = Undefined
    /\ dispCredentials = Undefined
    /\ gameID = Undefined
    /\ ai = aiOpt
    /\ subscribeCallback = <<>>
    /\ handles = <<>>
    /\ isConnected = ~HasTransport(m)
    /\ botPc = "idle"
    /\ botRead = NullState
    /\ lastCall = Call("Client", m, 0)
    /\ trace = ConstructorErrors(m)
    /\ state = InitialState(m)
    /\ log = <<>>
    /\ lastAction = NoAction
    /\ thrown = FALSE
    /\ lastPair = "other"
    /\ localMaster_ = IF m = "local" THEN NextLocalMaster(NoMaster, "g1", 0) ELSE NoMaster
    /\ masters = IF m = "local" THEN 1 ELSE 0
    /\ clients = <<[game |-> "g1", master |-> masters]>>

Init == \E m \in ClientSpecs, pid \in PlayerIDs : Constructed(m, pid, FALSE)

Next ==
    \/ MakeMove
    \/ GameEvent
    \/ Reset
    \/ Undo
    \/ Redo
    \/ Connect
    \/ ReceiveUpdate
    \/ ReceiveSync

\* The dispatches of one client.
Spec == Init /\ [][Next]_vars

\* The constructions of one process.
SpecProcess == ProcessInit /\ [][Client]_vars

\* A single-player client without a playerID.
InitSingle == Constructed("undefined", Undefined, FALSE)

\* The client of player "0" at a local master.
InitLocal == Constructed("local", "0", FALSE)

NextSubscribe ==
    \/ \E fn \in Listeners : Subscribe(fn)
    \/ \E n \in 1..MaxSubs : Unsubscribe(n)
    \/ MakeMove
    \/ Reset

\* The subscriptions of a single-player client, between its moves and resets.
SpecSubscribe == InitSingle /\ [][NextSubscribe]_vars

NextDelivery ==
    \/ \E fn \in Listeners : Subscribe(fn)
    \/ MakeMove
    \/ Reset
    \/ Connect
    \/ ReceiveSync

\* The listeners of a multiplayer client, none of them unsubscribed, with a
\* dispatch of each sort: relayed to the transport, client-only, delivered by
\* the transport.
SpecDelivery == InitLocal /\ [][NextDelivery]_vars

NextIdentity ==
    \/ \E pid \in PlayerIDs : UpdatePlayerID(pid)
    \/ \E gid \in GameIDs : UpdateGameID(gid)
    \/ \E cred \in Credentials : UpdateCredentials(cred)
    \/ MakeMove
    \/ GameEvent

\* The identity of one client, rebound between its moves and events; the
\* client of the local master is not synced yet.
SpecIdentity == (InitSingle \/ InitLocal) /\ [][NextIdentity]_vars

\* A single-player client with a bot.
InitBot == Constructed("undefined", Undefined, TRUE)

NextBot ==
    \/ StepRead
    \/ StepResume
    \/ MakeMove
    \/ GameEvent
    \/ Reset

\* The steps of the bot among the dispatches of its client.
SpecBot == InitBot /\ [][NextBot]_vars

----------------------------------------------------------------------------
(* Properties.                                                             *)

StrictlyIncreasing(lg) ==
    \A i \in 1..(Len(lg) - 1) : lg[i]._stateID < lg[i + 1]._stateID

NoDuplicates(lg) ==
    \A i, j \in 1..Len(lg) : i # j => lg[i]._stateID # lg[j]._stateID

Unbound(pid) == pid = Null \/ pid = Undefined

\* C1: an UPDATE delivered to a log whose _stateIDs are strictly increasing
\* leaves a log whose _stateIDs are strictly increasing (so distinct), for
\* every deltalog the authority may push, repeated or out of order; hence a
\* log that starts that way stays that way under any sequence of UPDATEs.
C1_UpdateKeepsLogIncreasing ==
    [][(ReceiveUpdate /\ StrictlyIncreasing(log)) => StrictlyIncreasing(log')]_vars

\* C1 witness: entry 1 is logged and a late UPDATE carrying entry 0 has been
\* delivered and dropped.
C1_Witness ==
    /\ lastAction.type = "UPDATE"
    /\ OrEmpty(lastAction.deltalog) = <<Entry(0)>>
    /\ log = <<Entry(1)>>

\* C2: in every reachable state no two entries of the client log carry the
\* same _stateID.
C2_NoDuplicateStateID == NoDuplicates(log)

\* C3: delivering the UPDATE that was delivered just before a second time
\* leaves the log as the first delivery left it.
C3_RedeliveryIdempotent ==
    [][\A a \in UpdateActions : (lastAction = a /\ Dispatch(a)) => log' = log]_vars

\* C3 witness: an UPDATE carrying two entries has been delivered twice in a
\* row and the log holds its two entries once.
C3_Witness ==
    /\ lastPair = "redelivery"
    /\ OrEmpty(lastAction.deltalog) = <<Entry(0), Entry(1)>>
    /\ log = <<Entry(0), Entry(1)>>

\* C4: when a MAKE_MOVE or GAME_EVENT has appended its deltalog to the log
\* and the next action is an UPDATE whose deltalog is those same entries,
\* the UPDATE leaves the log unchanged.
C4_EchoNotDuplicated ==
    [][\A a \in UpdateActions :
          (/\ lastAction.type \in {"MAKE_MOVE", "GAME_EVENT"}
           /\ ~thrown
           /\ OrEmpty(a.deltalog) = state.deltalog
           /\ Dispatch(a)) => log' = log]_vars

\* C4 witness: a move logged an entry and the authority's echo of that entry
\* has been delivered.
C4_Witness ==
    /\ lastPair = "echo"
    /\ Len(log) >= 2
    /\ OrEmpty(lastAction.deltalog) = <<log[Len(log)]>>

\* C5: a RESET leaves the log empty, and a MAKE_MOVE applied right after a
\* RESET leaves the log equal to the deltalog the reducer emitted for it.
C5_ResetClearsLog ==
    [][/\ Reset => log' = <<>>
       /\ (lastAction.type = "RESET" /\ MakeMove /\ ~thrown') => log' = state'.deltalog]_vars

\* C5 witness: after a RESET a move has been applied and logged one entry.
C5_Witness ==
    /\ lastPair = "first-move"
    /\ ~thrown
    /\ Len(log) = 1
    /\ log = state.deltalog

\* C6: after a SYNC the client log is the log the SYNC carried, or empty when
\* it carried none.
C6_SyncReplacesLog ==
    lastAction.type = "SYNC" =>
        log = (IF lastAction.log.present THEN lastAction.log.v ELSE <<>>)

\* C6 witness: a SYNC carrying a state at _stateID 2 and no log has been
\* delivered, and the client log is empty.
C6_Witness ==
    /\ lastAction.type = "SYNC"
    /\ ~lastAction.log.present
    /\ lastAction.state._stateID = 2
    /\ log = <<>>

\* C7: the action a move or event dispatcher creates carries ctx.currentPlayer
\* of the store state at the call when the client is single-player and has no
\* playerID, and the client's playerID otherwise.
C7_DispatcherPlayerID ==
    [][((MakeMove \/ GameEvent) /\ ~DispatcherThrows(multiplayer, playerID, state)) =>
          lastAction'.playerID =
              (IF multiplayer = "undefined" /\ Unbound(playerID)
               THEN state.ctx.currentPlayer
               ELSE playerID)]_vars

\* C7 witness: a single-player client without playerID has dispatched a move
\* credited to player "1", who was not the current player at construction.
C7_Witness ==
    /\ multiplayer = "undefined"
    /\ Unbound(playerID)
    /\ lastAction.type = "MAKE_MOVE"
    /\ lastAction.playerID = "1"

\* C8: whenever the store state is initialized and ctx.gameover is set,
\* getState().isActive is false.
C8_InactiveOnGameover ==
    (~state.isNull /\ state.ctx.gameover) => ~GetState.isActive

\* C8 witness: the game is over for a single-player client without playerID,
\* which would otherwise be active.
C8_Witness ==
    /\ ~state.isNull
    /\ state.ctx.gameover
    /\ multiplayer = "undefined"
    /\ Unbound(playerID)

\* C9: while ctx.gameover is not set, getState().isActive is the value of the
\* active-player predicate for a multiplayer client and for a single-player
\* client with a playerID, and true for a single-player client without one.
C9_IsActive ==
    (~state.isNull /\ ~state.ctx.gameover) =>
        GetState.isActive =
            (IF multiplayer = "undefined" /\ Unbound(playerID)
             THEN TRUE
             ELSE IsPlayerActive(state.ctx, playerID))

\* C9 witness: a single-player client without playerID, after a dispatched
\* move, for which the predicate is false and the game is not over.
C9_Witness ==
    /\ multiplayer = "undefined"
    /\ Unbound(playerID)
    /\ lastAction.type = "MAKE_MOVE"
    /\ ~state.ctx.gameover
    /\ ~IsPlayerActive(state.ctx, playerID)
    /\ GetState.isActive

\* C10: any two clients constructed with { local: true } against the same
\* game definition are bound to the same LocalMaster instance.
C10_LocalMasterSingleton ==
    \A i, j \in 1..Len(clients) :
        (/\ clients[i].master # 0
         /\ clients[j].master # 0
         /\ clients[i].game = clients[j].game) => clients[i].master = clients[j].master

\* The listeners that an operation invoked, in the order of their invocation.
ListenersCalled(tr) ==
    LET called == SelectSeq(tr, LAMBDA e : e.ev = "listener")
    IN [i \in 1..Len(called) |-> called[i].arg]

\* The last operation was a dispatch that the store completed.
Dispatched == trace # <<>> /\ trace[1].ev = "reducer"

\* C11: after subscribe(a), subscribe(b) and a call of the handle that
\* subscribe(b) returned, the subscription is a alone: the handle installs
\* the callback that invokes a only, and every action dispatched from then on
\* invokes a exactly once and b not at all.
C11_UnsubscribeLatestRestores ==
    [][\A a, b \in Listeners :
          (/\ a # b
           /\ handles = <<[prev |-> <<>>, fn |-> a], [prev |-> <<a>>, fn |-> b]>>)
          => /\ (subscribeCallback = <<a, b>> /\ Unsubscribe(2))
                    => subscribeCallback' = <<a>>
             /\ (subscribeCallback = <<a>> /\ Dispatched')
                    => ListenersCalled(trace') = <<a>>]_vars

C11_Witness ==
    /\ handles = <<[prev |-> <<>>, fn |-> "A"], [prev |-> <<"A">>, fn |-> "B"]>>
    /\ subscribeCallback = <<"A">>
    /\ lastCall.op = "moves"
    /\ Dispatched
    /\ ListenersCalled(trace) = <<"A">>

\* The calls of transport.onAction that an operation made.
OnActionCalls(tr) == SelectSeq(tr, LAMBDA e : e.ev = "transport.onAction")

\* C12: every dispatch applies the reducer to the store state; if the
\* action's clientOnly flag is true, transport.onAction is not called; if not,
\* it is called exactly once, with the store state as it was before the
\* reducer ran and with the action.
C12_TransportNotified ==
    [][Dispatched' =>
          /\ state' \in Reducer(state, lastAction')
          /\ IF lastAction'.clientOnly = TRUE
             THEN OnActionCalls(trace') = <<>>
             ELSE /\ Len(OnActionCalls(trace')) = 1
                  /\ OnActionCalls(trace')[1].state = state
                  /\ OnActionCalls(trace')[1].action = lastAction']_vars

C12_Witness ==
    /\ Dispatched
    /\ lastAction.type = "MAKE_MOVE"
    /\ ~lastAction.clientOnly
    /\ state._stateID = 2
    /\ Len(OnActionCalls(trace)) = 1
    /\ OnActionCalls(trace)[1].state._stateID = 1
    /\ OnActionCalls(trace)[1].action = lastAction

\* the multiplayer options that the constructor recognises
RecognisedSpecs == {"undefined", "true", "local", "server", "transport"}

\* C13: a construction whose multiplayer option is none of the recognised
\* shapes completes without throwing, logs an error, and leaves the client
\* without a transport that delivers the authority's pushes.
C13_InvalidSpecReported ==
    (lastCall.op = "Client" /\ lastCall.arg \notin RecognisedSpecs) =>
        /\ ~thrown
        /\ \E i \in 1..Len(trace) : trace[i] = InvalidSpecError
        /\ multiplayer = lastCall.arg
        /\ ~HasTransport(multiplayer)

\* The last operation was updatePlayerID, updateGameID or updateCredentials.
Rebound == lastCall.op \in {"updatePlayerID", "updateGameID", "updateCredentials"}

\* the field of the client that each of them assigns
Rebinding == [updatePlayerID |-> playerID, updateGameID |-> gameID,
              updateCredentials |-> credentials]

\* C14: updatePlayerID, updateGameID and updateCredentials each store the new
\* value, rebuild the dispatchers from the client's identity, and call the
\* transport with the new value; none of them dispatches an action.
C14_RebindNotifiesTransport ==
    Rebound =>
        /\ Rebinding[lastCall.op] = lastCall.arg
        /\ dispPlayerID = playerID
        /\ dispCredentials = credentials
        /\ \E i \in 1..Len(trace) :
              /\ trace[i].ev = "transport." \o lastCall.op
              /\ trace[i].arg = lastCall.arg
        /\ \A i \in 1..Len(trace) : trace[i].ev # "reducer"

\* The functions passed to subscribe(), in the order of the calls.
Registered == [i \in 1..Len(handles) |-> handles[i].fn]

\* No handle has been called: a handle installs a callback that invokes
\* fewer listeners than there were subscribe() calls, and no later call
\* makes up for that.
NoneUnsubscribed == Len(subscribeCallback) = Len(handles)

\* C15: with listeners subscribed one after another and no handle called,
\* every dispatch that the store completes, whether of a dispatcher, of
\* reset() or of the transport, invokes each of them exactly once, in the
\* order of their registration, after the reducer has run and with the
\* state that getState() returns after the action.
C15_ListenersInOrder ==
    (Dispatched /\ NoneUnsubscribed) =>
        /\ ListenersCalled(trace) = Registered
        /\ \A i \in 1..Len(trace) :
              trace[i].ev = "listener" => (i > 1 /\ trace[i].seen = GetState)

C15_Witness ==
    /\ Dispatched
    /\ lastCall.op = "transport"
    /\ Registered = <<"A", "B">>
    /\ subscribeCallback = <<"A", "B">>
    /\ ListenersCalled(trace) = <<"A", "B">>
    /\ ~state.isNull

\* C16: a client constructed with a multiplayer option starts with the null
\* store state and keeps it until a SYNC or an UPDATE of the authority
\* installs a state; while the store state is null, getState() returns null.
\* A single-player client never has a null store state, and its getState()
\* carries the client's log and the transport's isConnected.
C16_NullUntilPush ==
    /\ []((multiplayer # "undefined" /\ lastAction = NoAction) => state.isNull)
    /\ [](state.isNull => GetState = NullView)
    /\ [](multiplayer = "undefined" =>
              /\ ~state.isNull
              /\ ~GetState.isNull
              /\ GetState.log = log
              /\ GetState.isConnected = isConnected)
    /\ [][(multiplayer # "undefined" /\ state.isNull /\ ~state'.isNull) =>
              lastAction'.type \in {"SYNC", "UPDATE"}]_vars

C16_Witness ==
    /\ multiplayer = "local"
    /\ lastAction.type = "SYNC"
    /\ lastPair = "other"
    /\ ~state.isNull
    /\ ~GetState.isNull
    /\ GetState.log = log
    /\ Len(log) = 2

\* What an operation did, by name.
EventNames(tr) == [i \in 1..Len(tr) |-> tr[i].ev]

\* C17: within one dispatch the reducer runs first, then the log is
\* reconciled, then transport.onAction is called (unless the action is
\* clientOnly), then the listeners are invoked; the transport is called, and
\* each listener is invoked, when this.log is already the log that the
\* dispatch leaves.
C17_PipelineOrder ==
    Dispatched =>
        /\ EventNames(trace) =
              <<"reducer", "log">>
              \o (IF lastAction.clientOnly = TRUE THEN <<>> ELSE <<"transport.onAction">>)
              \o [i \in 1..Len(subscribeCallback) |-> "listener"]
        /\ \A i \in 1..Len(trace) :
              /\ trace[i].ev = "transport.onAction" => trace[i].log = log
              /\ trace[i].ev = "listener" => trace[i].seen = GetState

C17_Witness ==
    /\ Dispatched
    /\ lastAction.type = "MAKE_MOVE"
    /\ state.deltalog = <<Entry(1)>>
    /\ log = <<Entry(0), Entry(1)>>
    /\ subscribeCallback = <<"A">>
    /\ EventNames(trace) = <<"reducer", "log", "transport.onAction", "listener">>
    /\ trace[3].log = log
    /\ trace[4].seen.log = log

\* The last operation was the part of step() after the await, and the bot
\* had returned an action.
BotActed == lastCall.op = "step" /\ lastCall.arg \in {"MAKE_MOVE", "GAME_EVENT"}

\* The dispatches that an operation made.
Dispatches(tr) == SelectSeq(tr, LAMBDA e : e.ev = "reducer")

\* C18: step() exists only with an ai option and no multiplayer option. An
\* invocation dispatches nothing before its await; after it, it dispatches the
\* bot's action, once, if the bot returned one, and nothing if not. That
\* dispatch is the store's: the reducer is applied to the store state of that
\* moment, not to the state that step() had read, and the entries it logs
\* come after the log that the dispatches in between have left.
C18_StepDispatchesOnce ==
    /\ [](botPc = "awaiting" => HasStep)
    /\ [](lastCall.op = "step" =>
              /\ Len(Dispatches(trace)) = (IF BotActed THEN 1 ELSE 0)
              /\ BotActed => (/\ Dispatched
                              /\ lastAction.type = lastCall.arg
                              /\ lastAction.playerID = BotPlayerID(botRead)))
    /\ [][BotActed' =>
              /\ botPc = "awaiting"
              /\ state' \in Reducer(state, lastAction')
              /\ log' = log \o state'.deltalog]_vars

C18_Witness ==
    /\ BotActed
    /\ lastAction.type = "MAKE_MOVE"
    /\ botRead._stateID = 0
    /\ state._stateID = 2
    /\ log = <<Entry(0), Entry(1)>>
    /\ state.deltalog = <<Entry(1)>>

\* C19: the handle that a subscribe() returned installs the callback that was
\* current when that subscribe() was called, whatever the callback is by
\* then: the listeners subscribed after it are dropped with its own, and a
\* listener that an earlier handle had dropped is invoked again.
C19_HandleRestoresPrev ==
    [][/\ \A fn \in Listeners :
             Subscribe(fn) => handles'[Len(handles')].prev = subscribeCallback
       /\ \A n \in 1..Len(handles) :
             Unsubscribe(n) => /\ subscribeCallback' = handles[n].prev
                               /\ Len(subscribeCallback') < n]_vars

\* subscribe(A), subscribe(B), the handle of A, then the handle of B
C19_Witness ==
    /\ lastCall = Call("unsubscribe", "", 2)
    /\ handles = <<[prev |-> <<>>, fn |-> "A"], [prev |-> <<"A">>, fn |-> "B"]>>
    /\ trace[1].ev = "replaced"
    /\ trace[1].chain = <<>>
    /\ subscribeCallback = <<"A">>

\* The calls of transport.subscribe that an operation made.
SubscribeCalls(tr) == SelectSeq(tr, LAMBDA e : e.ev = "transport.subscribe")

\* C20: subscribe(fn) dispatches nothing and, before it returns, invokes the
\* new callback once: every listener of the callback that was current, once
\* each and in their order, then fn, each with what getState() returns at
\* that moment; transport.subscribe is called once, with that new callback.
C20_SubscribeInvokesOnce ==
    [][\A fn \in Listeners :
          Subscribe(fn) =>
             /\ ListenersCalled(trace') = Append(subscribeCallback, fn)
             /\ \A i \in 1..Len(trace') :
                   trace'[i].ev = "listener" => trace'[i].seen = GetState
             /\ Len(SubscribeCalls(trace')) = 1
             /\ SubscribeCalls(trace')[1].chain = subscribeCallback'
             /\ ListenersCalled(trace') = SubscribeCalls(trace')[1].chain
             /\ Dispatches(trace') = <<>>
             /\ state' = state /\ log' = log /\ lastAction' = lastAction]_vars

C20_Witness ==
    /\ lastCall = Call("subscribe", "B", 2)
    /\ handles[2].prev = <<"A">>
    /\ EventNames(trace) = <<"transport.subscribe", "listener", "listener">>
    /\ ListenersCalled(trace) = <<"A", "B">>
    /\ trace[1].chain = <<"A", "B">>
    /\ ~state.isNull
    /\ trace[3].seen = GetState

====
